---- MODULE Spec2Model ----
(***************************************************************************)
(* A model of the ray-casting demo in src/raycast.py (fixed wall height)   *)
(* and src/raycast_vary_height.py (walls of varying height): the grid map, *)
(* the player and its collision rule, the ambient light, the DDA ray       *)
(* traversal, the perspective projection and the main loop.                *)
(*                                                                         *)
(* Arithmetic.  The program computes in floating point; the model computes *)
(* in exact arithmetic on a fixed-point grid, and the inputs are the ones  *)
(* for which every product and quotient the program forms lies on that     *)
(* grid:                                                                   *)
(*   - lengths, coordinates and wall heights are in 1/Unit of a cell;      *)
(*   - times are in milliseconds, as Clock.tick returns them, and the      *)
(*     light is in thousandths;                                            *)
(*   - angles are in thousandths of a half turn (pi/1000 rad), so that a   *)
(*     rotation of rotate_speed*dt = pi*dt is dt milliseconds of angle;    *)
(*   - sines and cosines are in fifths, tabulated for the axis directions  *)
(*     and for the 3-4-5 directions, where they are rational.              *)
(* Rounding of the floating-point operations is not modelled.              *)
(***************************************************************************)
EXTENDS Integers, Sequences, FiniteSets, TLC

VARIABLES
    variant,      \* "fixed" (raycast.py) or "vary" (raycast_vary_height.py)
    wall_grid,    \* GameMap.wall_grid: the dictionary cell -> height
    light,        \* GameMap.light, in thousandths
    player,       \* Player: [x, y, direction, paces]
    keys,         \* Control.keys: [left, right, up, down]
    done,         \* Control.done
    dt,           \* main_loop's dt, in milliseconds
    pc,           \* where the main loop stands
    frames,       \* iterations of the main loop begun so far
    probe,        \* the last GameMap.get query and its result
    ray,          \* GameMap.ray / cast_ray: the list of steps built so far
    info,         \* the RayInfo of the cast in progress: [sin, cos, range]
    casting,      \* "idle", "loop" (inside the while loop), "returned"
    wall,         \* the last Camera.project calls: arguments and WallInfo
    ray_index,    \* Camera.draw_column: the index of the step drawn next
    screen        \* the blits of the last iteration of draw_column's loop

vars == <<variant, wall_grid, light, player, keys, done, dt, pc, frames,
          probe, ray, info, casting, wall, ray_index, screen>>

---------------------------------------------------------------------------
(* Scales and bounds *)

\* Resolution of lengths: 120ths of a cell.  24ths make every grid crossing
\* of a 3-4-5 ray from a half-cell origin exact, 10ths every pace of
\* 0.9, 1.2 or 1.5 cells.
Unit == 8 * 3 * 5

\* dt = clock.tick(fps)/1000.0: milliseconds per second.
Milli == 1000

\* GameMap(size): the grid is Size x Size.
Size == 4

\* The QUIT event arrives in this iteration of the main loop at the latest.
MaxFrames == 2

Max(a, b) == IF a >= b THEN a ELSE b

Abs(a) == IF a >= 0 THEN a ELSE -a

\* math.floor of a length, as a cell index.
FloorTrunc(a) == IF a >= 0 THEN a \div Unit ELSE -((-a) \div Unit)

Floor(a) == a \div Unit

\* math.ceil of a length, as a cell index.
Ceil(a) == -((-a) \div Unit)

---------------------------------------------------------------------------
(* GameMap: the grid *)

Cells == (0 .. Size-1) \X (0 .. Size-1)

\* random.choice((0.6, 1, 1.5)), in 1/Unit.
HEIGHTS == {(6 * Unit) \div 10, Unit, (15 * Unit) \div 10}

\* The sets of walls of the maps of the model: no wall, the single wall at
\* (2, 2), and two walls side by side.
Layouts == {{}, {<<2, 2>>}, {<<2, 2>>, <<1, 2>>}}

\* GameMap.randomize of raycast.py: every cell of the grid gets a boolean
\* (True is 1, False is 0, in 1/Unit).
RandomizeFixed == {[c \in Cells |-> IF c \in W THEN Unit ELSE 0] :
                     W \in Layouts}

\* GameMap.randomize of raycast_vary_height.py: only the walls get an entry.
RandomizeVary == UNION {[W -> HEIGHTS] : W \in Layouts}

Randomize(v) == IF v = "fixed" THEN RandomizeFixed ELSE RandomizeVary

\* The maps the main loop is run on: of the maps of varying height, those
\* whose walls are all 1.5 high.
TallOnly(v) ==
    {g \in Randomize(v) :
        v = "vary" => \A c \in DOMAIN g : g[c] = (15 * Unit) \div 10}

\* The default of wall_grid.get(point, -1).
NO_CELL == -Unit

GetTrunc(grid, x, y) ==
    LET point == <<FloorTrunc(x), FloorTrunc(y)>>
    IN  IF point \in DOMAIN grid THEN grid[point] ELSE NO_CELL

\* GameMap.get(x, y).
Get(grid, x, y) ==
    LET point == <<Floor(x), Floor(y)>>
    IN  IF point \in DOMAIN grid THEN grid[point] ELSE NO_CELL

---------------------------------------------------------------------------
(* Player *)

\* CIRCLE = 2*math.pi, in thousandths of a half turn.
CIRCLE == 2 * Milli

\* Player.speed: cells per second.
SPEED == 3

\* Player.rotate_speed = CIRCLE/2: half a turn per second.
ROTATE_SPEED == CIRCLE \div 2

\* The directions whose sine and cosine are rational: the four axis
\* directions and the 3-4-5 direction atan(4/3) = 0.2952 pi with its
\* quarter turns.
Directions == {0, 295, 500, 795, 1000, 1295, 1500, 1795}

\* math.cos and math.sin, in fifths.
Cos5(a) ==
    CASE a = 0 -> 5    [] a = 295 -> 3   [] a = 500 -> 0   [] a = 795 -> -4
      [] a = 1000 -> -5 [] a = 1295 -> -3 [] a = 1500 -> 0  [] a = 1795 -> 4

Sin5(a) ==
    CASE a = 0 -> 0    [] a = 295 -> 4   [] a = 500 -> 5   [] a = 795 -> 3
      [] a = 1000 -> 0  [] a = 1295 -> -4 [] a = 1500 -> -5 [] a = 1795 -> -3

\* Player.rotate(angle).
Rotate(p, angle) ==
    [p EXCEPT !.direction = (p.direction + angle + CIRCLE) % CIRCLE]

\* A walk whose y test reads the x of before the move.
WalkOldX(p, distance, grid) ==
    LET dx == (Cos5(p.direction) * distance) \div 5
        dy == (Sin5(p.direction) * distance) \div 5
        x1 == IF Get(grid, p.x + dx, p.y) <= 0 THEN p.x + dx ELSE p.x
        y1 == IF Get(grid, p.x, p.y + dy) <= 0 THEN p.y + dy ELSE p.y
    IN  [p EXCEPT !.x = x1, !.y = y1, !.paces = p.paces + distance]

\* A walk that takes the sentinel of an absent cell for a wall.
WalkSolidEdge(p, distance, grid) ==
    LET dx == (Cos5(p.direction) * distance) \div 5
        dy == (Sin5(p.direction) * distance) \div 5
        x1 == IF Get(grid, p.x + dx, p.y) = 0 THEN p.x + dx ELSE p.x
        y1 == IF Get(grid, x1, p.y + dy) = 0 THEN p.y + dy ELSE p.y
    IN  [p EXCEPT !.x = x1, !.y = y1, !.paces = p.paces + distance]

\* A walk that counts the paces of a step backwards as paces too.
WalkAbsPaces(p, distance, grid) ==
    LET dx == (Cos5(p.direction) * distance) \div 5
        dy == (Sin5(p.direction) * distance) \div 5
        x1 == IF Get(grid, p.x + dx, p.y) <= 0 THEN p.x + dx ELSE p.x
        y1 == IF Get(grid, x1, p.y + dy) <= 0 THEN p.y + dy ELSE p.y
    IN  [p EXCEPT !.x = x1, !.y = y1, !.paces = p.paces + Abs(distance)]

\* A walk that tests the move along x only and commits both axes with it.
WalkOneTest(p, distance, grid) ==
    LET dx == (Cos5(p.direction) * distance) \div 5
        dy == (Sin5(p.direction) * distance) \div 5
        free == Get(grid, p.x + dx, p.y) <= 0
    IN  [p EXCEPT !.x = IF free THEN p.x + dx ELSE p.x,
                  !.y = IF free THEN p.y + dy ELSE p.y,
                  !.paces = p.paces + distance]

\* Player.walk(distance, game_map).
Walk(p, distance, grid) ==
    LET dx == (Cos5(p.direction) * distance) \div 5
        dy == (Sin5(p.direction) * distance) \div 5
        x1 == IF Get(grid, p.x + dx, p.y) <= 0 THEN p.x + dx ELSE p.x
        y1 == IF Get(grid, x1, p.y + dy) <= 0 THEN p.y + dy ELSE p.y
    IN  [p EXCEPT !.x = x1, !.y = y1, !.paces = p.paces + distance]

\* self.rotate_speed*dt, an angle, and self.speed*dt, a length; dt is in
\* milliseconds.
TurnOf(t) == (ROTATE_SPEED * t) \div Milli

PaceOf(t) == (SPEED * t * Unit) \div Milli

\* Player.update(keys, dt, game_map).
PlayerUpdate(p, k, t, grid) ==
    LET p1 == IF k.left THEN Rotate(p, -TurnOf(t)) ELSE p
        p2 == IF k.right THEN Rotate(p1, TurnOf(t)) ELSE p1
        p3 == IF k.up THEN Walk(p2, PaceOf(t), grid) ELSE p2
        p4 == IF k.down THEN Walk(p3, -PaceOf(t), grid) ELSE p3
    IN  p4

---------------------------------------------------------------------------
(* GameMap: the ambient light *)

\* The values random.random() takes in the model, in thousandths.
RandomSet == {0, 19, 500, 999}

\* An update whose decay is not floored at 0.
GameMapUpdateNoFloor(l, t, r) ==
    IF l > 0 THEN l - 10 * t
    ELSE IF r * 5 < t THEN 2 * Milli ELSE l

\* GameMap.update(dt): light - 10*dt floored at 0, or the flash to 2 when
\* random.random()*5 < dt.  l is in thousandths, t in milliseconds, r in
\* thousandths.
GameMapUpdate(l, t, r) ==
    IF l > 0 THEN Max(l - 10 * t, 0)
    ELSE IF r * 5 < t THEN 2 * Milli ELSE l

---------------------------------------------------------------------------
(* Control: the main loop *)

\* An update that runs the player before the map.
UpdatePlayerFirst == <<"player_update", "game_map_update">>

\* Control.update(dt): the map, then the player.
ControlUpdate == <<"game_map_update", "player_update">>

\* Camera.render(player, game_map).
CameraRender == <<"draw_sky", "draw_columns", "draw_weapon">>

\* The body of the while loop of Control.main_loop.
MainLoop ==
    <<"event_loop">> \o ControlUpdate \o CameraRender
        \o <<"tick", "display_update", "display_fps">>

\* The step the main loop is about to run; "exit" once the loop is left.
Stage == IF pc \in DOMAIN MainLoop THEN MainLoop[pc] ELSE "exit"

\* pg.key.get_pressed(), for the four keys Player.update reads.
KeyStates == [left : BOOLEAN, right : BOOLEAN, up : BOOLEAN, down : BOOLEAN]

NoKeys == [left |-> FALSE, right |-> FALSE, up |-> FALSE, down |-> FALSE]

\* The values of clock.tick(fps), in milliseconds: quarter turns and paces
\* of 1.5 cells, or no time at all.
DtSet == {0, 500}

\* Player(x, y, direction): where the player may start, inside the grid and
\* outside of it, and facing where.
StartPoints == {<<Unit \div 2, (3 * Unit) \div 2>>,
                <<Unit \div 2, (5 * Unit) \div 2>>,
                <<(3 * Unit) \div 2, -Unit>>}

StartDirections == {0, 295}

\* The variables of the other parts, at rest.
NoProbe == [x |-> 0, y |-> 0, height |-> 0, asked |-> FALSE]

NoCast == ray = <<>> /\ info = [sin |-> 0, cos |-> 5, range |-> 0]
          /\ casting = "idle"

NoProject == wall = <<>>

NoDraw == ray_index = 0 /\ screen = <<>>

NoLoop == keys = NoKeys /\ done = FALSE /\ dt = 0 /\ pc = 0 /\ frames = 0

NoPlayer == player = [x |-> 0, y |-> 0, direction |-> 0, paces |-> 0]

\* Control.__init__ and the first clock.tick of main_loop.
Init ==
    /\ variant \in {"fixed", "vary"}
    /\ wall_grid \in TallOnly(variant)
    /\ light = 0
    /\ \E s \in StartPoints, d \in StartDirections :
         player = [x |-> s[1], y |-> s[2], direction |-> d, paces |-> 0]
    /\ keys = NoKeys
    /\ done = FALSE
    /\ dt \in DtSet
    /\ pc = 1
    /\ frames = 0
    /\ probe = NoProbe
    /\ NoCast
    /\ NoProject
    /\ NoDraw

Advance == pc' = pc + 1

\* Control.event_loop: a QUIT event sets done; key events reload the keys.
EventLoop ==
    /\ Stage = "event_loop"
    /\ \E quit \in BOOLEAN, k \in KeyStates :
         /\ frames + 1 >= MaxFrames => quit
         /\ done' = (done \/ quit)
         /\ keys' = k
    /\ frames' = frames + 1
    /\ Advance
    /\ UNCHANGED <<variant, wall_grid, light, player, dt, probe, ray, info,
                   casting, wall,
                   ray_index, screen>>

\* self.game_map.update(dt)
MapUpdate ==
    /\ Stage = "game_map_update"
    /\ \E r \in RandomSet : light' = GameMapUpdate(light, dt, r)
    /\ Advance
    /\ UNCHANGED <<variant, wall_grid, player, keys, done, dt, frames, probe,
                   ray, info, casting, wall,
                   ray_index, screen>>

\* self.player.update(self.keys, dt, self.game_map)
PlayerStep ==
    /\ Stage = "player_update"
    /\ player' = PlayerUpdate(player, keys, dt, wall_grid)
    /\ Advance
    /\ UNCHANGED <<variant, wall_grid, light, keys, done, dt, frames, probe,
                   ray, info, casting, wall,
                   ray_index, screen>>

\* draw_sky, draw_columns, draw_weapon, pg.display.update and display_fps
\* draw on the screen and the caption, which the model does not hold.
Draw ==
    /\ Stage \in {"draw_sky", "draw_columns", "draw_weapon", "display_update"}
    /\ Advance
    /\ UNCHANGED <<variant, wall_grid, light, player, keys, done, dt, frames,
                   probe, ray, info, casting, wall,
                   ray_index, screen>>

\* dt = self.clock.tick(self.fps)/1000.0
Tick ==
    /\ Stage = "tick"
    /\ dt' \in DtSet
    /\ Advance
    /\ UNCHANGED <<variant, wall_grid, light, player, keys, done, frames,
                   probe, ray, info, casting, wall,
                   ray_index, screen>>

\* display_fps ends the body: the loop runs again while not done.
DisplayFps ==
    /\ Stage = "display_fps"
    /\ pc' = IF done THEN 0 ELSE 1
    /\ UNCHANGED <<variant, wall_grid, light, player, keys, done, dt, frames,
                   probe, ray, info, casting, wall,
                   ray_index, screen>>

Next == EventLoop \/ MapUpdate \/ PlayerStep \/ Draw \/ Tick \/ DisplayFps

Spec == Init /\ [][Next]_vars

---------------------------------------------------------------------------
(* GameMap.get, queried at will *)

\* The coordinates queried: on, next to and between the grid lines, inside
\* and outside of the grid.
ProbeCoords ==
    {c * Unit + o : c \in -1 .. Size, o \in {0, Unit \div 2, Unit - 1}}

GetInit ==
    /\ variant \in {"fixed", "vary"}
    /\ wall_grid \in Randomize(variant)
    /\ light = 0
    /\ NoPlayer
    /\ NoLoop
    /\ probe = NoProbe
    /\ NoCast
    /\ NoProject
    /\ NoDraw

GetCall ==
    /\ \E x \in ProbeCoords, y \in ProbeCoords :
         probe' = [x |-> x, y |-> y, height |-> Get(wall_grid, x, y),
                   asked |-> TRUE]
    /\ UNCHANGED <<variant, wall_grid, light, player, keys, done, dt, pc,
                   frames, ray, info, casting, wall,
                   ray_index, screen>>

GetNext == GetCall

GetSpec == GetInit /\ [][GetNext]_vars

---------------------------------------------------------------------------
(* GameMap.update, called again and again *)

\* The frame times of the calls, in milliseconds: 60 and 30 frames per
\* second, and a tenth of a second.
LightDts == {16, 17, 33, 100}

LightInit ==
    /\ variant \in {"fixed", "vary"}
    /\ wall_grid = [c \in {} |-> 0]
    /\ light = 0
    /\ NoPlayer
    /\ NoLoop
    /\ probe = NoProbe
    /\ NoCast
    /\ NoProject
    /\ NoDraw

\* game_map.update(dt); dt keeps the argument of the call.
LightCall ==
    /\ \E t \in LightDts, r \in RandomSet :
         /\ dt' = t
         /\ light' = GameMapUpdate(light, t, r)
    /\ UNCHANGED <<variant, wall_grid, player, keys, done, pc, frames, probe,
                   ray, info, casting, wall,
                   ray_index, screen>>

LightNext == LightCall

\* The main loop calls update in every frame.
LightSpec == LightInit /\ [][LightNext]_vars /\ WF_vars(LightNext)

---------------------------------------------------------------------------
(* Camera.project *)

\* Camera.height: the height of the screen, SCREEN_SIZE[1].
SCREEN_HEIGHT == 600

\* A quotient n/d with d > 0, kept exactly: its floor and the remainder.
Quotient(n, d) == [floor |-> n \div d, rest |-> n % d, over |-> d]

\* int(n/d): the quotient cut towards zero.
IntOf(n, d) == IF n >= 0 THEN n \div d ELSE -((-n) \div d)

\* A projection whose depth is clamped at 0.1 instead of 0.2.
ProjectClampTooLow(height, angle, distance) ==
    LET z == Max(distance * Cos5(angle), Unit \div 2)
        wall_height == 5 * SCREEN_HEIGHT * height
        bottom == SCREEN_HEIGHT * (z + 5 * Unit)
    IN  [top |-> Quotient(bottom - 2 * wall_height, 2 * z),
         height |-> IntOf(wall_height, z)]

\* Camera.project(height, angle, distance).  With the cosine in fifths the
\* depth max(distance*cos(angle), 0.2) is z/(5*Unit), so that
\*     wall_height = SCREEN_HEIGHT*height/depth   = wall_height/z
\*     bottom = SCREEN_HEIGHT/2*(1 + 1/depth)     = bottom/(2*z)
\* for the numerators wall_height and bottom below; the WallInfo is
\* (bottom - wall_height, int(wall_height)).
Project(height, angle, distance) ==
    LET z == Max(distance * Cos5(angle), Unit)
        wall_height == 5 * SCREEN_HEIGHT * height
        bottom == SCREEN_HEIGHT * (z + 5 * Unit)
    IN  [top |-> Quotient(bottom - 2 * wall_height, 2 * z),
         height |-> IntOf(wall_height, z)]

\* The heights projected: a wall of height 1 and a rain drop of 0.1.
ProjectHeights == {Unit, Unit \div 10}

\* The angles projected: straight ahead, and the 3-4-5 angles either side.
ProjectAngles == {0, 295, 1795}

\* The distances projected: 0, 0.1, 0.2, 0.25, 0.5, 1, 1.5, 2.5, 7.9, 7.95
\* and 8.
ProjectDistances ==
    {0, Unit \div 10, Unit \div 5, Unit \div 4, Unit \div 2, Unit,
     (3 * Unit) \div 2, (5 * Unit) \div 2, (79 * Unit) \div 10,
     (159 * Unit) \div 20, 8 * Unit}

ProjectInit ==
    /\ variant \in {"fixed", "vary"}
    /\ wall_grid = [c \in {} |-> 0]
    /\ light = 0
    /\ NoPlayer
    /\ NoLoop
    /\ probe = NoProbe
    /\ NoCast
    /\ wall = << >>
    /\ NoDraw

\* self.project(height, angle, distance); wall keeps the last two calls.
ProjectCall ==
    /\ \E h \in ProjectHeights, a \in ProjectAngles, d \in ProjectDistances :
         LET call == [height |-> h, angle |-> a, distance |-> d,
                      info |-> Project(h, a, d)]
         IN  wall' = IF wall = << >> THEN <<call>>
                     ELSE <<wall[Len(wall)], call>>
    /\ UNCHANGED <<variant, wall_grid, light, player, keys, done, dt, pc,
                   frames, probe, ray, info, casting,
                   ray_index, screen>>

ProjectNext == ProjectCall

ProjectSpec == ProjectInit /\ [][ProjectNext]_vars

---------------------------------------------------------------------------
(* GameMap.cast and GameMap.ray (raycast.py), GameMap.cast_ray, Point.step *)
(* and Point.inspect (raycast_vary_height.py)                              *)

\* NO_WALL = float("inf"): longer than any length the model forms.
NO_WALL == 1000000 * Unit

\* math.hypot(a, b); the rays of the model make it a whole number.
Hypot(a, b) == CHOOSE h \in 0 .. Abs(a) + Abs(b) : h * h = a * a + b * b

\* Origin(point) and Point(point): height 0 and distance 0.
Origin(point) == [x |-> point[1], y |-> point[2], height |-> 0, distance |-> 0]

\* A step whose offset to the grid line is 0 on the line itself.
StepOnLine(rise, run, x, y, invert) ==
    IF run = 0
    THEN [length |-> NO_WALL]
    ELSE LET dx == IF run > 0 THEN Ceil(x) * Unit - x
                   ELSE Floor(x) * Unit - x
             dy == (dx * rise) \div run
         IN  [x |-> IF invert THEN y + dy ELSE x + dx,
              y |-> IF invert THEN x + dx ELSE y + dy,
              length |-> Hypot(dx, dy)]

\* A step whose failed division leaves a length of 0.
StepZeroLength(rise, run, x, y, invert) ==
    IF run = 0
    THEN [length |-> 0]
    ELSE LET dx == IF run > 0 THEN Floor(x + Unit) * Unit - x
                   ELSE Ceil(x - Unit) * Unit - x
             dy == (dx * rise) \div run
         IN  [x |-> IF invert THEN y + dy ELSE x + dx,
              y |-> IF invert THEN x + dx ELSE y + dy,
              length |-> Hypot(dx, dy)]

\* Step(rise, run, x, y, invert) and Point.step(rise, run, invert): the
\* crossing of the next grid line of the first axis.  rise/run raises
\* ZeroDivisionError when run is 0; the except clause leaves no point and
\* the length NO_WALL.
Step(rise, run, x, y, invert) ==
    IF run = 0
    THEN [length |-> NO_WALL]
    ELSE LET dx == IF run > 0 THEN Floor(x + Unit) * Unit - x
                   ELSE Ceil(x - Unit) * Unit - x
             dy == (dx * rise) \div run
         IN  [x |-> IF invert THEN y + dy ELSE x + dx,
              y |-> IF invert THEN x + dx ELSE y + dy,
              length |-> Hypot(dx, dy)]

\* An inspect that samples the cell before the crossing whatever the sign.
InspectAlwaysShift(grid, i, step, shift_x, shift_y, distance, offset) ==
    [x |-> step.x, y |-> step.y, length |-> step.length,
     height |-> Get(grid, step.x - shift_x * Unit, step.y - shift_y * Unit),
     distance |-> distance + step.length,
     shading |-> IF shift_x # 0 THEN (IF i.cos < 0 THEN 2 ELSE 0)
                 ELSE (IF i.sin < 0 THEN 2 ELSE 1),
     offset |-> offset - Floor(offset) * Unit]

\* GameMap.inspect(info, step, shift_x, shift_y, distance, offset) and
\* Point.inspect(info, game_map, shift_x, shift_y, distance, offset).
Inspect(grid, i, step, shift_x, shift_y, distance, offset) ==
    LET dx == IF i.cos < 0 THEN shift_x ELSE 0
        dy == IF i.sin < 0 THEN shift_y ELSE 0
    IN  [x |-> step.x, y |-> step.y, length |-> step.length,
         height |-> Get(grid, step.x - dx * Unit, step.y - dy * Unit),
         distance |-> distance + step.length,
         shading |-> IF shift_x # 0 THEN (IF i.cos < 0 THEN 2 ELSE 0)
                     ELSE (IF i.sin < 0 THEN 2 ELSE 1),
         offset |-> offset - Floor(offset) * Unit]

\* A loop that in both variants runs on until the range is passed.
ContinuesPastWalls(v, origin, i) == origin.distance <= i.range

\* The test of the while loop: raycast.py stops at the first wall or past
\* the range, raycast_vary_height.py past the range only.
Continues(v, origin, i) ==
    IF v = "fixed"
    THEN origin.height <= 0 /\ origin.distance <= i.range
    ELSE origin.distance <= i.range

\* The two candidates of an iteration of the loop.
StepX(i, origin) == Step(i.sin, i.cos, origin.x, origin.y, FALSE)

StepY(i, origin) == Step(i.cos, i.sin, origin.y, origin.x, TRUE)

\* The points the rays start from: the middles of cells, points on grid
\* lines, and a point west of the grid.
CastPoints ==
    {<<Unit \div 2, (5 * Unit) \div 2>>, <<(3 * Unit) \div 2, (5 * Unit) \div 2>>,
     <<Unit \div 2, Unit \div 2>>, <<Unit, (5 * Unit) \div 2>>,
     <<3 * Unit, 2 * Unit>>, <<-(Unit \div 2), (5 * Unit) \div 2>>}

\* Camera.range is 8; 1.5 is a range the first wall lies exactly at.
CastRanges == {(3 * Unit) \div 2, 8 * Unit}

CastInit ==
    /\ variant \in {"fixed", "vary"}
    /\ wall_grid \in Randomize(variant)
    /\ light = 0
    /\ NoPlayer
    /\ NoLoop
    /\ probe = NoProbe
    /\ NoCast
    /\ NoProject
    /\ NoDraw

\* GameMap.cast(point, angle, cast_range) up to the loop:
\* info = RayInfo(math.sin(angle), math.cos(angle), cast_range) and
\* processed = [Origin(point)].
CastCall ==
    /\ casting = "idle"
    /\ \E point \in CastPoints, angle \in Directions, r \in CastRanges :
         /\ info' = [sin |-> Sin5(angle), cos |-> Cos5(angle), range |-> r]
         /\ ray' = <<Origin(point)>>
    /\ casting' = "loop"
    /\ UNCHANGED <<variant, wall_grid, light, player, keys, done, dt, pc,
                   frames, probe, wall,
                   ray_index, screen>>

\* One iteration of the while loop.  A candidate without a point cannot be
\* inspected: taking it raises TypeError.
RayLoop ==
    /\ casting = "loop"
    /\ Continues(variant, ray[Len(ray)], info)
    /\ LET origin == ray[Len(ray)]
           dist == origin.distance
           step_x == StepX(info, origin)
           step_y == StepY(info, origin)
           take_x == step_x.length < step_y.length
           taken == IF take_x THEN step_x ELSE step_y
       IN  IF "x" \notin DOMAIN taken
           THEN casting' = "raised" /\ ray' = ray
           ELSE /\ casting' = casting
                /\ ray' = Append(ray,
                     IF take_x
                     THEN Inspect(wall_grid, info, step_x, 1, 0, dist, step_x.y)
                     ELSE Inspect(wall_grid, info, step_y, 0, 1, dist, step_y.x))
    /\ UNCHANGED <<variant, wall_grid, light, player, keys, done, dt, pc,
                   frames, probe, info, wall,
                   ray_index, screen>>

\* The loop ends: return processed.
RayReturn ==
    /\ casting = "loop"
    /\ ~Continues(variant, ray[Len(ray)], info)
    /\ casting' = "returned"
    /\ UNCHANGED <<variant, wall_grid, light, player, keys, done, dt, pc,
                   frames, probe, ray, info, wall,
                   ray_index, screen>>

CastNext == CastCall \/ RayLoop \/ RayReturn

\* A call that has begun runs on.
CastSpec == CastInit /\ [][CastNext]_vars /\ WF_vars(CastNext)

---------------------------------------------------------------------------
(* Camera.draw_column, Camera.draw_shadow and Camera.draw_rain *)

\* Camera.light_range.
LIGHT_RANGE == 5

Min(a, b) == IF a <= b THEN a ELSE b

\* A hit that is taken to be the last step of the ray.
HitLast(r) == Len(r) - 1

\* raycast.py: hit, the index of the first step of height > 0, len(ray) if
\* there is none.  Indices count from 0 as in the source.
Hit(r) ==
    LET found == {i \in 0 .. Len(r) - 1 : r[i + 1].height > 0}
    IN  IF found = {} THEN Len(r)
        ELSE CHOOSE i \in found : \A j \in found : i <= j

\* The test that guards the wall slice: raycast.py draws the step at hit,
\* raycast_vary_height.py every step of height > 0.
DrawsWall(v, r, index) ==
    IF v = "fixed" THEN index = Hit(r) ELSE r[index + 1].height > 0

\* draw_shadow: alpha = 255*min(1, max(max_light, 0)), cut to a whole number
\* by the fill; max_light is shade_value/(light_range - light) in raycast.py
\* and shade_value/light_range - light in raycast_vary_height.py.
ShadowAlpha(v, step, l) ==
    LET shade_value == step.distance + step.shading * Unit
        num == IF v = "fixed" THEN shade_value * Milli
               ELSE shade_value * Milli - l * LIGHT_RANGE * Unit
        den == IF v = "fixed" THEN Unit * (LIGHT_RANGE * Milli - l)
               ELSE LIGHT_RANGE * Unit * Milli
    IN  IntOf(255 * Min(den, Max(num, 0)), den)

\* draw_rain: rain_drops = int(random.random()**3*ray_index), the draw in
\* thousandths.
RainDrops(rnd, index) ==
    (((rnd * rnd * rnd) \div Milli) * index) \div (Milli * Milli)

\* The blits of one iteration of the loop of draw_column: the scaled slice
\* of the wall and its shadow if the step is drawn as a wall, then one drop
\* per rain drop.  A blit is recorded with the step it belongs to and the
\* size of its surface, not with the place of a drop, which is random.
Blits(v, r, index, angle, l, rnd) ==
    LET step == r[index + 1]
        projected == Project(step.height, angle, step.distance)
        rain == Project(Unit \div 10, angle, step.distance)
    IN  (IF DrawsWall(v, r, index)
         THEN << [kind |-> "wall", ray_index |-> index,
                  offset |-> step.offset, top |-> projected.top,
                  height |-> projected.height],
                 [kind |-> "shadow", ray_index |-> index,
                  alpha |-> ShadowAlpha(v, step, l)] >>
         ELSE << >>)
        \o [k \in 1 .. RainDrops(rnd, index) |->
              [kind |-> "rain", ray_index |-> index, height |-> rain.height]]

\* draw_columns hands the ray to draw_column; the loop runs from the
\* furthest step to the origin.
DrawColumn ==
    /\ casting = "returned"
    /\ casting' = "drawing"
    /\ ray_index' = Len(ray) - 1
    /\ screen' = << >>
    /\ UNCHANGED <<variant, wall_grid, light, player, keys, done, dt, pc,
                   frames, probe, ray, info, wall>>

\* One iteration of the for loop, for the middle column (angle 0).
DrawStep ==
    /\ casting = "drawing"
    /\ ray_index >= 0
    /\ \E rnd \in RandomSet :
         screen' = Blits(variant, ray, ray_index, 0, light, rnd)
    /\ ray_index' = ray_index - 1
    /\ UNCHANGED <<variant, wall_grid, light, player, keys, done, dt, pc,
                   frames, probe, ray, info, casting, wall>>

\* The loop is through.
DrawReturn ==
    /\ casting = "drawing"
    /\ ray_index < 0
    /\ casting' = "drawn"
    /\ UNCHANGED <<variant, wall_grid, light, player, keys, done, dt, pc,
                   frames, probe, ray, info, wall, ray_index, screen>>

DrawNext == CastNext \/ DrawColumn \/ DrawStep \/ DrawReturn

DrawSpec == CastInit /\ [][DrawNext]_vars /\ WF_vars(DrawNext)

---------------------------------------------------------------------------
(* Claims on GameMap.get *)

\* The coordinate a lies in the row or column c of cells: c <= a < c+1.
InCell(a, c) == c * Unit <= a /\ a < (c + 1) * Unit

\* The query of probe falls in a cell of the grid.
ProbeInside ==
    \E c \in Cells : InCell(probe.x, c[1]) /\ InCell(probe.y, c[2])

\* The query of probe falls in a cell that holds a wall.
ProbeOnWall ==
    \E c \in Cells : /\ InCell(probe.x, c[1]) /\ InCell(probe.y, c[2])
                     /\ c \in DOMAIN wall_grid /\ wall_grid[c] > 0

\* C1 as stated: get returns -1 exactly when the floored point lies outside
\* the grid, and a non-negative height for every cell inside it, an empty
\* one included.
C1_SentinelOnlyOutside ==
    probe.asked =>
        /\ probe.height = NO_CELL <=> ~ProbeInside
        /\ ProbeInside => probe.height >= 0

\* C1 as amended: get floors x and y and returns -1 exactly when the
\* dictionary holds no entry for the floored point: in raycast.py exactly
\* outside the grid (an empty cell inside gives 0), in
\* raycast_vary_height.py outside the grid and for every empty cell inside
\* it.  In both, the result is positive exactly on the wall cells.
C1_SentinelIsNoEntry ==
    probe.asked =>
        /\ ~ProbeInside => probe.height = NO_CELL
        /\ probe.height > 0 <=> ProbeOnWall
        /\ variant = "fixed" =>
             /\ ProbeInside => probe.height \in {0, Unit}
        /\ variant = "vary" =>
             /\ ProbeInside /\ ~ProbeOnWall => probe.height = NO_CELL
             /\ ProbeOnWall => probe.height \in HEIGHTS

\* An empty cell inside the grid answers -1 in raycast_vary_height.py.
C1_Witness ==
    /\ probe.asked /\ variant = "vary" /\ wall_grid # << >>
    /\ ProbeInside /\ probe.height = NO_CELL

---------------------------------------------------------------------------
(* Claims on Player.walk and Player.update *)

\* The point (a, b) lies in a cell of the grid.
InGrid(a, b) == \E c \in Cells : InCell(a, c[1]) /\ InCell(b, c[2])

\* Player.update is about to run with exactly one of the two walking keys
\* down: it makes one call of Player.walk.
OneWalk == Stage = "player_update" /\ keys.up # keys.down

\* The distance of that call.
WalkDistance == IF keys.up THEN PaceOf(dt) ELSE -PaceOf(dt)

\* C2: walk moves x by dx exactly when get(x+dx, y) <= 0, with the y of
\* before the move, and then y by dy exactly when get(x', y+dy) <= 0, with
\* the x the first test has left; the axis whose test fails stays.
C2_AxesTestedInTurn ==
    [][OneWalk =>
        LET dx == (Cos5(player'.direction) * WalkDistance) \div 5
            dy == (Sin5(player'.direction) * WalkDistance) \div 5
            x_free == Get(wall_grid, player.x + dx, player.y) <= 0
            y_free == Get(wall_grid, player'.x, player.y + dy) <= 0
        IN  /\ player'.x = IF x_free THEN player.x + dx ELSE player.x
            /\ player'.y = IF y_free THEN player.y + dy ELSE player.y]_vars

\* A slide: from (0.5, 2.5), facing atan(4/3), a pace of 1.5 cells is
\* stopped in x by the wall at (1, 2) and moves y by 1.2.
C2_Witness ==
    /\ Stage = "draw_sky" /\ frames = 1 /\ dt = 500
    /\ keys = [NoKeys EXCEPT !.up = TRUE]
    /\ <<1, 2>> \in DOMAIN wall_grid /\ wall_grid[<<1, 2>>] > 0
    /\ player = [x |-> Unit \div 2,
                 y |-> (5 * Unit) \div 2 + (4 * PaceOf(dt)) \div 5,
                 direction |-> 295, paces |-> PaceOf(dt)]

\* C3 as stated: a player inside the grid is inside it after every step.
C3_StaysInside ==
    [][InGrid(player.x, player.y) => InGrid(player'.x, player'.y)]_vars

\* C3 as amended: the sentinel -1 of a query outside the grid passes the
\* test <= 0 of Player.walk, so walk commits every axis move whose
\* destination lies outside the grid: the boundary is open, not solid.
C3_EdgeIsOpen ==
    [][OneWalk =>
        LET dx == (Cos5(player'.direction) * WalkDistance) \div 5
            dy == (Sin5(player'.direction) * WalkDistance) \div 5
        IN  /\ ~InGrid(player.x + dx, player.y)
                 => player'.x = player.x + dx
            /\ ~InGrid(player'.x, player.y + dy)
                 => player'.y = player.y + dy]_vars

\* The player has stepped back from (0.5, 2.5), inside the grid, to
\* (-1, 2.5), outside of it.
C3_Witness ==
    /\ Stage = "draw_sky" /\ frames = 1 /\ dt = 500
    /\ keys = [NoKeys EXCEPT !.down = TRUE]
    /\ player = [x |-> Unit \div 2 - PaceOf(dt), y |-> (5 * Unit) \div 2,
                 direction |-> 0, paces |-> -PaceOf(dt)]
    /\ ~InGrid(player.x, player.y)

\* C9 as stated: paces never decreases.
C9_PacesMonotonic == [][player'.paces >= player.paces]_vars

\* 1 for a key that is down and 0 for one that is up.
Pressed(b) == IF b THEN 1 ELSE 0

\* C9 as amended: Player.update adds speed*dt to paces for move-forward and
\* subtracts speed*dt for move-backward; paces never decreases in an update
\* without move-backward, and nothing else changes it.
C9_PacesSigned ==
    [][/\ Stage = "player_update" =>
            player'.paces = player.paces
                + (Pressed(keys.up) - Pressed(keys.down)) * PaceOf(dt)
       /\ Stage = "player_update" /\ ~keys.down =>
            player'.paces >= player.paces
       /\ Stage # "player_update" => player'.paces = player.paces]_vars

\* The paces have gone below where they started.
C9_Witness ==
    /\ Stage = "draw_sky" /\ keys.down /\ ~keys.up /\ dt > 0
    /\ player.paces < 0

---------------------------------------------------------------------------
(* Claims on the main loop *)

\* C10 as stated: the player update is followed by the map update.
C10_PlayerBeforeMap ==
    [][Stage = "player_update" => Stage' = "game_map_update"]_vars

\* C10 as amended: in every frame the events are read first, then the map
\* update advances the light, then the player update moves the player, then
\* the camera renders (sky, columns, weapon), then the clock ticks, and only
\* then is the frame presented; the light changes in the map update only
\* and the player in the player update only.
C10_MapBeforePlayer ==
    [][/\ Stage = "event_loop" => Stage' = "game_map_update"
       /\ Stage = "game_map_update" => Stage' = "player_update"
       /\ Stage = "player_update" => Stage' = "draw_sky"
       /\ Stage = "draw_sky" => Stage' = "draw_columns"
       /\ Stage = "draw_columns" => Stage' = "draw_weapon"
       /\ Stage = "draw_weapon" => Stage' = "tick"
       /\ Stage = "tick" => Stage' = "display_update"
       /\ Stage = "display_update" => Stage' = "display_fps"
       /\ light' # light => Stage = "game_map_update"
       /\ player' # player => Stage = "player_update"]_vars

\* A frame in which the light has flashed and the player has moved is
\* about to be presented.
C10_Witness ==
    /\ Stage = "display_update" /\ frames = 1
    /\ light = 2 * Milli /\ player.paces # 0

---------------------------------------------------------------------------
(* Claims on the ambient light *)

\* C7: with dt = 0.1 every call made while light > 0 lowers the light, by
\* 10*dt floored at 0 whatever the random draw, so the light is 0 after
\* finitely many calls; from 0 the light stays 0 or flashes to 2, which is
\* the only way it rises; the light is always within [0, 2].
C7_LightDecays ==
    /\ [](light >= 0 /\ light <= 2 * Milli)
    /\ [][/\ dt' = 100 /\ light > 0 =>
               light' < light /\ light' = Max(light - Milli, 0)
          /\ light = 0 => light' \in {0, 2 * Milli}
          /\ light' > light => light = 0 /\ light' = 2 * Milli]_vars
    /\ (light > 0) ~> (light = 0)

\* Half way down: the call with dt = 0.1 has taken the light from 2 to 1.
C7_Witness == dt = 100 /\ light = Milli

---------------------------------------------------------------------------
(* Claims on the projection *)

\* Two quotients compared.
Less(p, q) ==
    \/ p.floor < q.floor
    \/ p.floor = q.floor /\ p.rest * q.over < q.rest * p.over

Same(p, q) == p.floor = q.floor /\ p.rest * q.over = q.rest * p.over

\* The last two calls projected a wall of height 1 straight ahead, the
\* second from further away.
TwoDistances ==
    /\ Len(wall) = 2
    /\ wall[1].height = Unit /\ wall[2].height = Unit
    /\ wall[1].angle = 0 /\ wall[2].angle = 0
    /\ wall[1].distance < wall[2].distance

\* The depth of a call, in 1/(5*Unit), before the clamp.
Depth(c) == c.distance * Cos5(c.angle)

\* C8 as stated, for distances that are not clamped: the pixel height of
\* the further wall is strictly smaller.
C8_StrictlySmaller ==
    TwoDistances /\ Depth(wall[1]) >= Unit =>
        wall[2].info.height < wall[1].info.height

\* C8 as amended: project returns int(wall_height), so of two distances
\* d1 < d2 the further never gets the larger pixel height, and gets a
\* strictly smaller one when the heights before int() differ by a pixel or
\* more; the top moves toward the horizon screen_height/2, strictly once
\* d2 is beyond the clamp; and a depth distance*cos(angle) <= 0.2 gives the
\* result of depth 0.2: pixel height int(screen_height*height/0.2).
C8_NeverLarger ==
    /\ TwoDistances =>
         LET z1 == Max(Depth(wall[1]), Unit)
             z2 == Max(Depth(wall[2]), Unit)
             horizon == Quotient(SCREEN_HEIGHT, 2)
         IN  /\ wall[2].info.height <= wall[1].info.height
             /\ 5 * Unit * SCREEN_HEIGHT * (z2 - z1) >= z1 * z2
                  => wall[2].info.height < wall[1].info.height
             /\ ~Less(wall[2].info.top, wall[1].info.top)
             /\ Less(wall[2].info.top, horizon)
             /\ z2 > Unit => Less(wall[1].info.top, wall[2].info.top)
    /\ \A i \in DOMAIN wall :
         Depth(wall[i]) <= Unit =>
             /\ wall[i].info.height
                  = IntOf(5 * SCREEN_HEIGHT * wall[i].height, Unit)
             /\ Same(wall[i].info.top,
                     Quotient(3 * SCREEN_HEIGHT * Unit
                                - 5 * SCREEN_HEIGHT * wall[i].height, Unit))

\* Distances 7.9 and 7.95 both give 75 pixels, and distances 0.1 and 0.2
\* both the clamped 3000.
C8_Witness ==
    /\ TwoDistances
    /\ wall[1].distance = (79 * Unit) \div 10
    /\ wall[2].distance = (159 * Unit) \div 20
    /\ wall[1].info.height = 75 /\ wall[2].info.height = 75


---------------------------------------------------------------------------
(* Claims on ray casting *)

Steps == 2 .. Len(ray)

OnLine(a) == a % Unit = 0

C5_AxisRays ==
    (ray # <<>> /\ (info.sin = 0 \/ info.cos = 0)) =>
        /\ casting # "raised"
        /\ info.sin = 0 =>
             /\ StepY(info, ray[Len(ray)]).length = NO_WALL
             /\ \A i \in Steps :
                  /\ ray[i].y = ray[1].y /\ ray[i].x # ray[i - 1].x
                  /\ ray[i].shading = (IF info.cos < 0 THEN 2 ELSE 0)
                  /\ ray[i].length < NO_WALL
        /\ info.cos = 0 =>
             /\ StepX(info, ray[Len(ray)]).length = NO_WALL
             /\ \A i \in Steps :
                  /\ ray[i].x = ray[1].x /\ ray[i].y # ray[i - 1].y
                  /\ ray[i].shading = (IF info.sin < 0 THEN 2 ELSE 1)
                  /\ ray[i].length < NO_WALL

\* A returned chain of several steps straight down the y axis.
C5_Witness ==
    /\ casting = "returned" /\ info.cos = 0 /\ info.sin < 0
    /\ Len(ray) > 3
    /\ ray[Len(ray)].x = ray[1].x /\ ray[Len(ray)].y < ray[1].y

IsWall(c) == c \in DOMAIN wall_grid /\ wall_grid[c] > 0

\* The cell (wx, floor(y0)) is a wall, lies ahead of the origin within the
\* range, and is the only wall of its row ahead of the origin.
OnlyWallAhead(wx) ==
    LET row == Floor(ray[1].y)
    IN  /\ IsWall(<<wx, row>>)
        /\ wx * Unit > ray[1].x
        /\ wx * Unit - ray[1].x <= info.range
        /\ \A c \in 0 .. Size - 1 :
             (c * Unit > ray[1].x /\ IsWall(<<c, row>>)) => c = wx

Hits == {i \in 1 .. Len(ray) : ray[i].height > 0}

\* C6: for a ray cast due +x from (x0, y0) whose row has the single wall
\* (wx, floor(y0)) ahead within the range, the returned chain has a step of
\* height > 0, and the first such step has distance wx - x0, shading 0,
\* offset y0 - floor(y0) and the height of the wall cell; all steps before
\* it have height <= 0.
C6_FirstWallDueEast ==
    \A wx \in 0 .. Size - 1 :
        (ray # <<>> /\ info.sin = 0 /\ info.cos > 0 /\ OnlyWallAhead(wx)) =>
            /\ casting = "returned" => Hits # {}
            /\ \A i \in Hits :
                 (\A j \in 1 .. i - 1 : ray[j].height <= 0) =>
                     /\ ray[i].distance = wx * Unit - ray[1].x
                     /\ ray[i].shading = 0
                     /\ ray[i].offset = ray[1].y - Floor(ray[1].y) * Unit
                     /\ ray[i].height = wall_grid[<<wx, Floor(ray[1].y)>>]

\* The 4x4 map with the one wall (2, 2) of height 1, origin (0.5, 2.5),
\* angle 0, range 8: the chain ends with the hit at distance 1.5, offset 0.5.
C6_Witness ==
    /\ casting = "returned" /\ variant = "fixed" /\ Size = 4
    /\ \A c \in Cells : IsWall(c) <=> c = <<2, 2>>
    /\ info = [sin |-> 0, cos |-> 5, range |-> 8 * Unit]
    /\ ray[1].x = Unit \div 2 /\ ray[1].y = (5 * Unit) \div 2
    /\ Len(ray) = 3
    /\ ray[2].height <= 0
    /\ ray[3].height = Unit
    /\ ray[3].distance = (3 * Unit) \div 2
    /\ ray[3].offset = Unit \div 2
    /\ ray[3].shading = 0


---------------------------------------------------------------------------
(* Claims on Camera.draw_column *)

\* The step a blit belongs to.
StepOf(b) == ray[b.ray_index + 1]

BlitsOnScreen == {screen[k] : k \in 1 .. Len(screen)}

\* C11 as stated: draw_column draws nothing, neither a wall slice nor a
\* shadow nor rain, for a step that lies at or beyond the range and whose
\* height is not positive.
C11_NothingPastRange ==
    \A b \in BlitsOnScreen :
        ~(StepOf(b).distance >= info.range /\ StepOf(b).height <= 0)

\* C11: draw_column draws a wall slice and a shadow only for steps of
\* height > 0 (in raycast.py only for the first such step), so a step whose
\* height is not positive gets neither, at any distance; rain is drawn for
\* every step whatever its height and distance, fewer drops than the index
\* of the step, so none for the origin and the first step.
C11_OnlyRainWithoutWall ==
    /\ \A b \in BlitsOnScreen :
         /\ b.kind \in {"wall", "shadow"} =>
              /\ StepOf(b).height > 0
              /\ variant = "fixed" => b.ray_index = Hit(ray)
         /\ b.kind = "rain" => b.ray_index >= 2
         /\ b.ray_index = ray_index + 1
    /\ Cardinality({k \in 1 .. Len(screen) : screen[k].kind = "rain"})
           <= Max(ray_index, 0)

\* Rain and nothing else drawn for a step of height 0 beyond the range.
C11_Witness ==
    /\ casting = "drawing" /\ variant = "fixed" /\ screen # << >>
    /\ \A b \in BlitsOnScreen :
         /\ b.kind = "rain"
         /\ StepOf(b).height = 0
         /\ StepOf(b).distance > info.range


---------------------------------------------------------------------------
(* Claims on the end of a cast *)

\* The shape of a returned chain: it starts with the origin, every step but
\* the last lies within the range and, in raycast.py, has a height <= 0;
\* the last step is the first to pass the range or, in raycast.py, to have
\* a height > 0.
StopsAtFirst ==
    LET last == ray[Len(ray)]
    IN  /\ Len(ray) >= 2
        /\ ray[1].distance = 0 /\ ray[1].height = 0
        /\ \A i \in 1 .. Len(ray) - 1 :
             /\ ray[i].distance <= info.range
             /\ variant = "fixed" => ray[i].height <= 0
        /\ variant = "fixed" => (last.height > 0 \/ last.distance > info.range)
        /\ variant = "vary" =>
             /\ last.distance > info.range
             /\ {i \in 1 .. Len(ray) : ray[i].distance > info.range}
                    = {Len(ray)}

\* C12: every cast returns, and the returned chain starts with the origin
\* (distance 0, height 0) and ends with the first step that meets the stop
\* condition: every step before the last lies within the range and, in
\* raycast.py, has height <= 0; the last step has height > 0 or lies beyond
\* the range in raycast.py, and is the one step beyond the range in
\* raycast_vary_height.py.
C12_Terminates ==
    /\ [](casting = "returned" => StopsAtFirst)
    /\ (casting = "loop") ~> (casting = "returned")

\* A returned chain of raycast.py that ends at a wall within the range,
\* after steps over empty cells.
C12_Witness ==
    /\ casting = "returned" /\ variant = "fixed" /\ Len(ray) > 2
    /\ ray[Len(ray)].height > 0
    /\ ray[Len(ray)].distance < info.range
    /\ \A i \in 1 .. Len(ray) - 1 : ray[i].height <= 0


---------------------------------------------------------------------------
(* Claim on the cell of the player *)

\* The height GameMap.get reports for the cell that holds the player.
HeightAtPlayer == Get(wall_grid, player.x, player.y)

\* C13: on a map that stays as it is, a player whose cell has a height <= 0
\* is in a cell of height <= 0 after every step of the program, whatever the
\* keys and dt of the Player.update calls: the player is never inside a
\* wall cell.
C13_NeverInWall ==
    /\ HeightAtPlayer <= 0
    /\ [][wall_grid' = wall_grid]_vars
    /\ [][HeightAtPlayer <= 0 => Get(wall_grid', player'.x, player'.y) <= 0]_vars

\* Player.update has walked forward from (0.5, 2.5) due +x against the wall
\* (2, 2), 1.5 cells ahead: paces has grown and the player has not moved.
C13_Witness ==
    /\ Stage = "draw_sky" /\ frames = 1 /\ dt = 500
    /\ keys = [NoKeys EXCEPT !.up = TRUE]
    /\ <<2, 2>> \in DOMAIN wall_grid /\ wall_grid[<<2, 2>>] > 0
    /\ Get(wall_grid, player.x + PaceOf(dt), player.y) > 0
    /\ player = [x |-> Unit \div 2, y |-> (5 * Unit) \div 2,
                 direction |-> 0, paces |-> PaceOf(dt)]

====
